---- MODULE Spec2Model ----
(***************************************************************************)
(* A model of goiardi's node package (node/node.go): the Node entity, its  *)
(* validation from uploaded JSON, its persistence in the in-memory data    *)
(* store or in MySQL, and its synchronisation with the search index.       *)
(***************************************************************************)
EXTENDS Integers, Sequences, FiniteSets, TLC

VARIABLES
    useMySQL,   \* config.Config.UseMySQL, fixed for the process lifetime
    heap,       \* Go heap: object id -> Node struct value, or NoObj
    cur,        \* the caller's *Node variable: an object id, or Nil (0)
    ds,         \* in-memory data_store, kind "node": name -> object id
    db,         \* MySQL table nodes: name -> row
    index,      \* the indexer's collection "node": name -> indexed terms
    last,       \* the call that ended last: operation, arguments, result
    log,        \* transaction and indexer events of the last call, in order
    halted,     \* the process panicked or exited (log.Fatal)
    peer,       \* a second process, configured with the other backend and
                \* given the same calls: its state while it waits (NoPeer
                \* when there is one process only)
    calls       \* goroutines that call New and Save at the same time:
                \* where each one is (NoCalls when there is one caller)

vars == <<useMySQL, heap, cur, ds, db, index, last, log, halted, peer, calls>>

----------------------------------------------------------------------------
(* Bounds of the model. *)

\* number of heap cells for Node objects (one per stored name, one in hand)
MaxObjs == 3

\* longest run list an uploaded document carries
MaxRunList == 2

Names == {"a", "b"}
BadName == "bad name!"

\* rows of the table environments; "dev" is well formed but has no row
Environments == {"_default", "prod"}
EnvInputs == {"_default", "prod", "dev"}
BadEnv == "bad env!"

RunListItems == {"recipe[nginx]", "role[web]"}
BadRunListItem == "not an item!"

Nil == 0
NoObj == [absent |-> TRUE]
NoPeer == [absent |-> TRUE]
NoCalls == [absent |-> TRUE]
Objs == 1..MaxObjs

----------------------------------------------------------------------------
(* JSON values of an uploaded document (map[string]interface{}).  Every    *)
(* value carries the same fields so that values of different dynamic type  *)
(* compare.  An attribute tree is the set of its <<key path, leaf>> pairs. *)

JNil == [t |-> "nil", s |-> "", l |-> <<>>, m |-> {}]
JStr(s) == [t |-> "str", s |-> s, l |-> <<>>, m |-> {}]
JNum == [t |-> "num", s |-> "", l |-> <<>>, m |-> {}]
JList(l) == [t |-> "list", s |-> "", l |-> l, m |-> {}]
JMap(m) == [t |-> "map", s |-> "", l |-> <<>>, m |-> m]

EmptyTree == {}
TreeNginx == {<<(<<"nginx", "port">>), "8080">>}
TreeDeep == {<<(<<"a", "b", "c">>), "x">>, <<(<<"a", "d">>), "y">>}

\* json_node[k]: a missing key reads as nil, like a key holding null
Lookup(json, k) == IF k \in DOMAIN json THEN json[k] ELSE JNil

\* json_node[k] = v
Assign(json, k, v) ==
    [x \in (DOMAIN json) \cup {k} |-> IF x = k THEN v ELSE json[x]]

----------------------------------------------------------------------------
(* Errors.  kind names the error, detail what it is about. *)

NoErr == [kind |-> "nil", detail |-> ""]
Err(kind, detail) == [kind |-> kind, detail |-> detail]

----------------------------------------------------------------------------
(* The validators of package util, as node.go uses them. *)

Val(v) == [err |-> NoErr, val |-> v]
Fail(e, v) == [err |-> e, val |-> v]

\* util.ValidateAsString: a string, or "Field 'name' missing"
ValidateAsString(v) ==
    IF v.t = "str" THEN Val(v.s) ELSE Fail(Err("FieldMissing", "name"), "")

\* util.ValidateAsFieldString: a string, "Field 'name' nil" for nil,
\* "Field 'name' missing" for any other type
ValidateAsFieldString(v) ==
    IF v.t = "str" THEN Val(v.s)
    ELSE IF v.t = "nil" THEN Fail(Err("FieldNil", "name"), "")
    ELSE Fail(Err("FieldMissing", "name"), "")

\* util.ValidateDBagName and util.ValidateEnvName: format rules
ValidateDBagName(name) == name \in Names
ValidateEnvName(env) == env \in EnvInputs

\* util.ValidateRunList: nil is the empty run list; a list is accepted
\* when every element is a run list item, and keeps its order
ValidateRunList(v) ==
    IF v.t = "nil" THEN Val(<<>>)
    ELSE IF v.t = "list" /\ \A i \in DOMAIN v.l : v.l[i] \in RunListItems
         THEN Val(v.l)
    ELSE Fail(Err("InvalidRunList", "run_list"), <<>>)

\* util.ValidateAttributes: nil is the empty map; a map is accepted as is
ValidateAttributes(a, v) ==
    IF v.t = "nil" THEN Val(EmptyTree)
    ELSE IF v.t = "map" THEN Val(v.m)
    ELSE Fail(Err("InvalidAttributes", a), EmptyTree)

----------------------------------------------------------------------------
(* The Node struct and New's skeleton. *)

NewNode(name) ==
    [Name |-> name, ChefEnvironment |-> "_default", RunList |-> <<>>,
     JsonClass |-> "Chef::Node", ChefType |-> "node",
     Automatic |-> EmptyTree, Normal |-> EmptyTree,
     Default |-> EmptyTree, Override |-> EmptyTree]

valid_elements ==
    {"name", "json_class", "chef_type", "chef_environment", "run_list",
     "override", "normal", "default", "automatic"}

attrs == <<"normal", "automatic", "default", "override">>

InvalidKeys(json) == (DOMAIN json) \ valid_elements

\* the keys the range over json_node can meet first among the invalid ones
\* (Go ranges over a map in an unspecified order)
RangeChoices(json) ==
    IF InvalidKeys(json) = {} THEN {""} ELSE InvalidKeys(json)

----------------------------------------------------------------------------
(* Node.UpdateFromJson, one operator per step of the method.  A step takes *)
(* and returns st = [err, node, json]: the error returned so far, the      *)
(* receiver and the caller's map, both of which the method may write.  A   *)
(* step after a return (st.err set) does nothing.                          *)

St(e, n, j) == [err |-> e, node |-> n, json |-> j]

\* a StepName that takes the document's name for the node's
StepNameRenames(st) ==
    LET r == ValidateAsString(Lookup(st.json, "name")) IN
    IF r.err # NoErr THEN St(r.err, st.node, st.json)
    ELSE St(NoErr, [st.node EXCEPT !.Name = r.val], st.json)

\* lines 200-207: the name is a string and equals the receiver's
StepName(st) ==
    LET r == ValidateAsString(Lookup(st.json, "name")) IN
    IF r.err # NoErr THEN St(r.err, st.node, st.json)
    ELSE IF st.node.Name # r.val
         THEN St(Err("NameMismatch", r.val), st.node, st.json)
    ELSE st

\* a StepKeys that lets every key through
StepKeysSkipped(st, k) == st

\* lines 214-224: k is the first invalid key the range meets
StepKeys(st, k) ==
    IF st.err # NoErr THEN st ELSE
        IF InvalidKeys(st.json) # {}
        THEN St(Err("InvalidKey", k), st.node, st.json)
        ELSE st

\* lines 227-230
StepRunList(st) ==
    IF st.err # NoErr THEN st ELSE
        LET r == ValidateRunList(Lookup(st.json, "run_list")) IN
        St(r.err, st.node, Assign(st.json, "run_list", JList(r.val)))

\* lines 231-237, from the i-th attribute on
RECURSIVE StepAttrs(_, _)
StepAttrs(st, i) ==
    IF i > Len(attrs) THEN st
    ELSE LET a == attrs[i]
             r == ValidateAttributes(a, Lookup(st.json, a))
             nx == St(r.err, st.node, Assign(st.json, a, JMap(r.val)))
         IN IF r.err # NoErr THEN nx ELSE StepAttrs(nx, i + 1)

StepAllAttrs(st) == IF st.err # NoErr THEN st ELSE StepAttrs(st, 1)

\* a StepEnv that assigns the receiver's field as soon as it is validated
StepEnvAssignsAtOnce(st) ==
    IF st.err # NoErr THEN st ELSE
        LET r == ValidateAsFieldString(Lookup(st.json, "chef_environment"))
            j == Assign(st.json, "chef_environment", JStr(r.val))
        IN  IF r.err # NoErr
            THEN IF r.err.kind = "FieldNil"
                 THEN St(NoErr, st.node,
                         Assign(j, "chef_environment",
                                JStr(st.node.ChefEnvironment)))
                 ELSE St(r.err, st.node, j)
            ELSE IF ~ValidateEnvName(r.val)
                 THEN St(Err("FieldInvalid", "chef_environment"), st.node, j)
            ELSE St(NoErr, [st.node EXCEPT !.ChefEnvironment = r.val], j)

\* a StepEnv that falls back to New's default, not to the receiver's value
StepEnvDefaultsOnNil(st) ==
    IF st.err # NoErr THEN st ELSE
        LET r == ValidateAsFieldString(Lookup(st.json, "chef_environment"))
            j == Assign(st.json, "chef_environment", JStr(r.val))
        IN  IF r.err # NoErr
            THEN IF r.err.kind = "FieldNil"
                 THEN St(NoErr, st.node,
                         Assign(j, "chef_environment", JStr("_default")))
                 ELSE St(r.err, st.node, j)
            ELSE IF ~ValidateEnvName(r.val)
                 THEN St(Err("FieldInvalid", "chef_environment"), st.node, j)
            ELSE St(NoErr, st.node, j)

\* lines 239-251
StepEnv(st) ==
    IF st.err # NoErr THEN st ELSE
        LET r == ValidateAsFieldString(Lookup(st.json, "chef_environment"))
            j == Assign(st.json, "chef_environment", JStr(r.val))
        IN  IF r.err # NoErr
            THEN IF r.err.kind = "FieldNil"
                 THEN St(NoErr, st.node,
                         Assign(j, "chef_environment",
                                JStr(st.node.ChefEnvironment)))
                 ELSE St(r.err, st.node, j)
            ELSE IF ~ValidateEnvName(r.val)
                 THEN St(Err("FieldInvalid", "chef_environment"), st.node, j)
            ELSE St(NoErr, st.node, j)

\* lines 253-265
StepJsonClass(st) ==
    IF st.err # NoErr THEN st ELSE
        LET r == ValidateAsFieldString(Lookup(st.json, "json_class"))
            j == Assign(st.json, "json_class", JStr(r.val))
        IN  IF r.err # NoErr
            THEN IF r.err.kind = "FieldNil"
                 THEN St(NoErr, st.node,
                         Assign(j, "json_class", JStr(st.node.JsonClass)))
                 ELSE St(r.err, st.node, j)
            ELSE IF r.val # "Chef::Node"
                 THEN St(Err("FieldInvalid", "json_class"), st.node, j)
            ELSE St(NoErr, st.node, j)

\* a StepChefType that takes any string for the node's chef_type
StepChefTypeTakesAnyString(st) ==
    IF st.err # NoErr THEN st ELSE
        LET r == ValidateAsFieldString(Lookup(st.json, "chef_type"))
            j == Assign(st.json, "chef_type", JStr(r.val))
        IN  IF r.err # NoErr
            THEN IF r.err.kind = "FieldNil"
                 THEN St(NoErr, st.node,
                         Assign(j, "chef_type", JStr(st.node.ChefType)))
                 ELSE St(r.err, st.node, j)
            ELSE St(NoErr, st.node, j)

\* lines 268-280
StepChefType(st) ==
    IF st.err # NoErr THEN st ELSE
        LET r == ValidateAsFieldString(Lookup(st.json, "chef_type"))
            j == Assign(st.json, "chef_type", JStr(r.val))
        IN  IF r.err # NoErr
            THEN IF r.err.kind = "FieldNil"
                 THEN St(NoErr, st.node,
                         Assign(j, "chef_type", JStr(st.node.ChefType)))
                 ELSE St(r.err, st.node, j)
            ELSE IF r.val # "node"
                 THEN St(Err("FieldInvalid", "chef_type"), st.node, j)
            ELSE St(NoErr, st.node, j)

\* lines 283-291: "and setting"
StepSet(st) ==
    IF st.err # NoErr THEN st ELSE
        St(NoErr,
           [Name |-> st.node.Name,
            ChefEnvironment |-> st.json["chef_environment"].s,
            ChefType |-> st.json["chef_type"].s,
            JsonClass |-> st.json["json_class"].s,
            RunList |-> st.json["run_list"].l,
            Normal |-> st.json["normal"].m,
            Automatic |-> st.json["automatic"].m,
            Default |-> st.json["default"].m,
            Override |-> st.json["override"].m],
           st.json)

\* lines 196-292: the steps in the order of the method; a step passes on
\* the error an earlier step returned
UpdateFromJson(n, json, k) ==
    StepSet(StepChefType(StepJsonClass(StepEnv(StepAllAttrs(StepRunList(
        StepKeys(StepName(St(NoErr, n, json)), k)))))))

----------------------------------------------------------------------------
(* data_store.EncodeBlob / DecodeBlob: a blob is shape-erased, the set of  *)
(* <<path, leaf>> pairs of the value; a sequence is stored under its       *)
(* element numbers and rebuilt in that order when the hint is a sequence.  *)

EncodeList(l) == {<<(<<ToString(i)>>), l[i]>> : i \in DOMAIN l}
EncodeTree(m) == m

DecodeList(b) ==
    [i \in 1..Cardinality(b) |->
        (CHOOSE p \in b : p[1] = <<ToString(i)>>)[2]]
DecodeTree(b) == b

NoRow == [absent |-> TRUE]

\* the columns Save writes (lines 297-316, 330, 346)
RowOf(n) ==
    [environment |-> n.ChefEnvironment,
     run_list |-> EncodeList(n.RunList),
     automatic_attr |-> EncodeTree(n.Automatic),
     normal_attr |-> EncodeTree(n.Normal),
     default_attr |-> EncodeTree(n.Default),
     override_attr |-> EncodeTree(n.Override)]

\* Node.fillNodeFromSQL on the row Get's query selects for name
fillNodeFromSQL(name, row) ==
    [Name |-> name,
     ChefEnvironment |-> row.environment,
     ChefType |-> "node",
     JsonClass |-> "Chef::Node",
     RunList |-> DecodeList(row.run_list),
     Automatic |-> DecodeTree(row.automatic_attr),
     Normal |-> DecodeTree(row.normal_attr),
     Default |-> DecodeTree(row.default_attr),
     Override |-> DecodeTree(row.override_attr)]

\* util.FlattenObj + util.Indexify: the terms the indexer keeps for a node
Flatten(n) ==
    {<<(<<"name">>), n.Name>>,
     <<(<<"chef_environment">>), n.ChefEnvironment>>}
    \cup {<<(<<"run_list">>), n.RunList[i]>> : i \in DOMAIN n.RunList}
    \cup {<<(<<"automatic">>) \o p[1], p[2]>> : p \in n.Automatic}
    \cup {<<(<<"normal">>) \o p[1], p[2]>> : p \in n.Normal}
    \cup {<<(<<"default">>) \o p[1], p[2]>> : p \in n.Default}
    \cup {<<(<<"override">>) \o p[1], p[2]>> : p \in n.Override}

NoDoc == {}

\* indexer.IndexObj(n) and indexer.DeleteItemFromCollection("node", name)
IndexObj(idx, n) == [idx EXCEPT ![n.Name] = Flatten(n)]
DeleteItemFromCollection(idx, name) == [idx EXCEPT ![name] = NoDoc]

----------------------------------------------------------------------------
(* Storage faults.  A call into database/sql may fail; at is the call that *)
(* fails in this operation ("none": no call fails), rb tells whether a     *)
(* rollback, if one is made, fails as well.                                *)

Fault(at, rb) == [at |-> at, rb |-> rb]
SaveFaults ==
    {Fault(at, FALSE) : at \in {"none", "encode", "begin", "commit"}}
    \cup {Fault(at, rb) : at \in {"probe", "env", "write"}, rb \in BOOLEAN}
DeleteFaults ==
    {Fault(at, FALSE) : at \in {"none", "begin", "commit"}}
    \cup {Fault("write", rb) : rb \in BOOLEAN}
GetFaults == {"none", "prepare", "scan", "decode"}
NewFaults == {"none", "probe"}
ListFaults == {"none", "query"}

StorageError(what) == Err("StorageError", what)

Ev(e, a) == <<e, a>>

\* an error path that returns without tx.Rollback()
RollbackForgotten(f) == Ev("return", "no rollback")

\* tx.Rollback(), lines 332, 337, 343, 348 and 370
Rollback(f) == Ev("rollback", IF f.rb THEN "failed" ELSE "ok")

\* what a call returns: the error, the stores after it, its events
Out(e, dsv, dbv, idx, lg) ==
    [err |-> e, ds |-> dsv, db |-> dbv, index |-> idx, log |-> lg]

----------------------------------------------------------------------------
(* Node.Save, lines 294-360.  n is the receiver's value, obj its address.  *)

\* statements that INSERT whatever the probe found
SaveStatementsAlwaysInsert(n, f) ==
    IF f.at = "probe"
    THEN [err |-> StorageError("probe"), db |-> db,
          log |-> <<Ev("probe", "nodes"), Rollback(f)>>]
    ELSE IF f.at = "env"
    THEN [err |-> StorageError("environments"), db |-> db,
          log |-> <<Ev("probe", "nodes"), Ev("probe", "environments"),
                    Rollback(f)>>]
    ELSE IF n.ChefEnvironment \notin Environments
    THEN [err |-> Err("ErrNoRows", n.ChefEnvironment), db |-> db,
          log |-> <<Ev("probe", "nodes"), Ev("probe", "environments"),
                    Rollback(f)>>]
    ELSE IF f.at = "write"
    THEN [err |-> StorageError("insert"), db |-> db,
          log |-> <<Ev("probe", "nodes"), Ev("probe", "environments"),
                    Ev("insert", "failed"), Rollback(f)>>]
    ELSE [err |-> NoErr, db |-> [db EXCEPT ![n.Name] = RowOf(n)],
          log |-> <<Ev("probe", "nodes"), Ev("probe", "environments"),
                    Ev("insert", n.Name)>>]

\* lines 326-351: the statements between Begin and Commit; returns the
\* error, the table as the transaction leaves it, and the events
SaveStatements(n, f) ==
    IF f.at = "probe"
    THEN [err |-> StorageError("probe"), db |-> db,
          log |-> <<Ev("probe", "nodes"), Rollback(f)>>]
    ELSE IF db[n.Name] # NoRow
    THEN \* line 330: UPDATE nodes n, environments e ... WHERE e.name = ?
         IF f.at = "write"
         THEN [err |-> StorageError("update"), db |-> db,
               log |-> <<Ev("probe", "nodes"), Ev("update", "failed"),
                         Rollback(f)>>]
         ELSE [err |-> NoErr,
               db |-> IF n.ChefEnvironment \in Environments
                      THEN [db EXCEPT ![n.Name] = RowOf(n)]
                      ELSE db,
               log |-> <<Ev("probe", "nodes"), Ev("update", n.Name)>>]
    ELSE \* lines 336-350
         IF f.at = "env"
         THEN [err |-> StorageError("environments"), db |-> db,
               log |-> <<Ev("probe", "nodes"), Ev("probe", "environments"),
                         Rollback(f)>>]
         ELSE IF n.ChefEnvironment \notin Environments
         THEN [err |-> Err("ErrNoRows", n.ChefEnvironment), db |-> db,
               log |-> <<Ev("probe", "nodes"), Ev("probe", "environments"),
                         Rollback(f)>>]
         ELSE IF f.at = "write"
         THEN [err |-> StorageError("insert"), db |-> db,
               log |-> <<Ev("probe", "nodes"), Ev("probe", "environments"),
                         Ev("insert", "failed"), Rollback(f)>>]
         ELSE [err |-> NoErr, db |-> [db EXCEPT ![n.Name] = RowOf(n)],
               log |-> <<Ev("probe", "nodes"), Ev("probe", "environments"),
                         Ev("insert", n.Name)>>]

\* lines 295-352
SaveMySQL(n, f) ==
    IF f.at = "encode" THEN Out(StorageError("encode"), ds, db, index, <<>>)
    ELSE IF f.at = "begin"
    THEN Out(StorageError("begin"), ds, db, index, <<Ev("begin", "failed")>>)
    ELSE LET w == SaveStatements(n, f) IN
         IF w.err # NoErr
         THEN Out(w.err, ds, db, index, <<Ev("begin", "ok")>> \o w.log)
         ELSE \* line 352: tx.Commit(), its error is not looked at
              IF f.at = "commit"
              THEN Out(NoErr, ds, db, index,
                       <<Ev("begin", "ok")>> \o w.log
                           \o <<Ev("commit", "failed")>>)
              ELSE Out(NoErr, ds, w.db, index,
                       <<Ev("begin", "ok")>> \o w.log
                           \o <<Ev("commit", "ok")>>)

\* lines 354-355
SaveInMem(n, obj) ==
    Out(NoErr, [ds EXCEPT ![n.Name] = obj], db, index, <<Ev("set", n.Name)>>)

Save(n, obj, f) ==
    LET w == IF useMySQL THEN SaveMySQL(n, f) ELSE SaveInMem(n, obj) IN
    IF w.err # NoErr THEN w
    ELSE \* line 358
         Out(NoErr, w.ds, w.db, IndexObj(w.index, n),
             w.log \o <<Ev("index", n.Name)>>)

----------------------------------------------------------------------------
(* Node.Delete, lines 362-383. *)

DeleteMySQL(n, f) ==
    IF f.at = "begin"
    THEN Out(StorageError("begin"), ds, db, index, <<Ev("begin", "failed")>>)
    ELSE IF f.at = "write"
    THEN Out(IF f.rb THEN Err("StorageError+RollbackError", "delete")
                     ELSE StorageError("delete"),
             ds, db, index,
             <<Ev("begin", "ok"), Ev("delete", "failed"), Rollback(f)>>)
    ELSE IF f.at = "commit"
    THEN Out(NoErr, ds, db, index,
             <<Ev("begin", "ok"), Ev("delete", n.Name),
               Ev("commit", "failed")>>)
    ELSE Out(NoErr, ds, [db EXCEPT ![n.Name] = NoRow], index,
             <<Ev("begin", "ok"), Ev("delete", n.Name), Ev("commit", "ok")>>)

DeleteInMem(n) ==
    Out(NoErr, [ds EXCEPT ![n.Name] = Nil], db, index,
        <<Ev("delete", n.Name)>>)

Delete(n, f) ==
    LET w == IF useMySQL THEN DeleteMySQL(n, f) ELSE DeleteInMem(n) IN
    IF w.err # NoErr THEN w
    ELSE \* line 381
         Out(NoErr, w.ds, w.db, DeleteItemFromCollection(w.index, n.Name),
             w.log \o <<Ev("remove", n.Name)>>)

----------------------------------------------------------------------------
(* New, NewFromJson, Get and GetList. *)

\* data_store.CheckForOne(Dbh, "nodes", name) / ds.Get("node", name)
Stored(name) ==
    /\ name \in Names
    /\ IF useMySQL THEN db[name] # NoRow ELSE ds[name] # Nil

Made(e, n) == [err |-> e, node |-> n]

\* a New that does not look for a node of that name in the data store
NewWithoutLookup(name, f) ==
    IF useMySQL /\ f = "probe"
    THEN Made(Err("InternalServerError", name), NoObj)
    ELSE IF useMySQL /\ Stored(name) THEN Made(Err("Conflict", name), NoObj)
    ELSE IF ~ValidateDBagName(name) THEN Made(Err("FieldInvalid", "name"), NoObj)
    ELSE Made(NoErr, NewNode(name))

\* lines 45-86
New(name, f) ==
    IF useMySQL /\ f = "probe"
    THEN Made(Err("InternalServerError", name), NoObj)
    ELSE IF Stored(name) THEN Made(Err("Conflict", name), NoObj)
    ELSE IF ~ValidateDBagName(name) THEN Made(Err("FieldInvalid", "name"), NoObj)
    ELSE Made(NoErr, NewNode(name))

\* lines 89-103; json is the map after the call
NewFromJson(json_node, f, k) ==
    LET nm == ValidateAsString(Lookup(json_node, "name")) IN
    IF nm.err # NoErr
    THEN [err |-> nm.err, node |-> NoObj, json |-> json_node]
    ELSE LET made == New(nm.val, f) IN
         IF made.err # NoErr
         THEN [err |-> made.err, node |-> NoObj, json |-> json_node]
         ELSE LET st == UpdateFromJson(made.node, json_node, k) IN
              IF st.err # NoErr
              THEN [err |-> st.err, node |-> NoObj, json |-> st.json]
              ELSE st

\* lines 160-193.  how: "fresh" a node built from the row, "shared" the
\* object the data store holds, "none" no node, "panic" the type assertion
\* of line 186 on the nil interface a missing key gives
Got(e, how, n, o) == [err |-> e, how |-> how, node |-> n, obj |-> o]

GetMySQL(node_name, f) ==
    IF f = "prepare" THEN Got(StorageError("prepare"), "none", NoObj, Nil)
    ELSE IF f = "scan" THEN Got(StorageError("scan"), "none", NoObj, Nil)
    ELSE IF db[node_name] = NoRow
    THEN Got(Err("NotFound", node_name), "none", NoObj, Nil)
    ELSE IF f = "decode" THEN Got(Err("CodecError", node_name), "none", NoObj, Nil)
    ELSE Got(NoErr, "fresh", fillNodeFromSQL(node_name, db[node_name]), Nil)

GetInMem(node_name) ==
    IF ds[node_name] = Nil
    THEN Got(Err("Panic", "interface conversion"), "panic", NoObj, Nil)
    ELSE Got(NoErr, "shared", heap[ds[node_name]], ds[node_name])

Get(node_name, f) ==
    IF useMySQL THEN GetMySQL(node_name, f) ELSE GetInMem(node_name)

StoredNames == {x \in Names : Stored(x)}

\* the orders in which the rows, or the keys of the data store, can come
Orders(S) ==
    {o \in [1..Cardinality(S) -> S] :
        \A i, j \in DOMAIN o : i # j => o[i] # o[j]}

\* lines 386-415: order is the order the names come in; "Fatal" is the
\* log.Fatal of line 392
GetList(f, order) ==
    IF useMySQL /\ f = "query"
    THEN [err |-> Err("Fatal", "query"), names |-> <<>>]
    ELSE [err |-> NoErr, names |-> order]

----------------------------------------------------------------------------
(* The documents a caller uploads. *)

Doc(name) == [k \in {"name"} |-> JStr(name)]
NoJson == [k \in {} |-> JNil]

RunListNginxWeb == <<"recipe[nginx]", "role[web]">>

\* the documents of the storage scenarios, for name x: a run list and an
\* override tree, the same in an environment that has no row, and a
\* document with a key that is not a field of a node
DocsFor(x) ==
    {Assign(Assign(Doc(x), "run_list", JList(RunListNginxWeb)),
            "override", JMap(TreeNginx)),
     Assign(Assign(Assign(Doc(x), "run_list", JList(RunListNginxWeb)),
                   "override", JMap(TreeNginx)),
            "chef_environment", JStr("dev")),
     Assign(Doc(x), "bogus_field", JNum)}

Docs == UNION {DocsFor(x) : x \in Names} \cup {NoJson}

\* the faults a call can meet: those of its database calls, none in the
\* in-memory mode, which makes no such call; where the two backends are
\* run side by side the database answers every call
NoFault == Fault("none", FALSE)
Faults(all, none) == IF useMySQL /\ peer = NoPeer THEN all ELSE {none}

----------------------------------------------------------------------------
(* The state machine: one caller, one call at a time. *)

Called(op, name, json, jsonOut, pre, err, names) ==
    [op |-> op, name |-> name, json |-> json, jsonOut |-> jsonOut,
     pre |-> pre, err |-> err, names |-> names]

\* the heap without the objects nothing refers to any more
Collect(h, c, d) ==
    [o \in Objs |->
        IF o = c \/ (\E x \in Names : d[x] = o) THEN h[o] ELSE NoObj]

\* a cell the data store does not refer to (the caller's variable is
\* overwritten by the call that allocates)
FreeCells == {o \in Objs : \A x \in Names : ds[x] # o}
Alloc == CHOOSE o \in FreeCells : \A p \in FreeCells : o <= p

Init ==
    /\ useMySQL \in BOOLEAN
    /\ heap = [o \in Objs |-> NoObj]
    /\ cur = Nil
    /\ ds = [x \in Names |-> Nil]
    /\ db = [x \in Names |-> NoRow]
    /\ index = [x \in Names |-> NoDoc]
    /\ last = Called("init", "", NoJson, NoJson, NoObj, NoErr, <<>>)
    /\ log = <<>>
    /\ halted = FALSE
    /\ peer = NoPeer
    /\ calls = NoCalls

DoNew ==
    /\ ~halted
    /\ FreeCells # {}
    /\ \E name \in Names \cup {BadName}, f \in Faults(NewFaults, "none") :
        \E r \in {New(name, f)} :
        /\ last' = Called("New", name, NoJson, NoJson, NoObj, r.err, <<>>)
        /\ cur' = IF r.err = NoErr THEN Alloc ELSE cur
        /\ heap' = IF r.err = NoErr
                   THEN Collect([heap EXCEPT ![Alloc] = r.node], Alloc, ds)
                   ELSE heap
    /\ log' = <<>>
    /\ UNCHANGED <<peer, calls, useMySQL, ds, db, index, halted>>

NewFromJsonCall(docs) ==
    /\ ~halted
    /\ FreeCells # {}
    /\ \E json \in docs, f \in Faults(NewFaults, "none") :
       \E k \in RangeChoices(json) :
        \E r \in {NewFromJson(json, f, k)} :
        /\ last' = Called("NewFromJson", Lookup(json, "name").s, json,
                          r.json, NoObj, r.err, <<>>)
        /\ cur' = IF r.err = NoErr THEN Alloc ELSE cur
        /\ heap' = IF r.err = NoErr
                   THEN Collect([heap EXCEPT ![Alloc] = r.node], Alloc, ds)
                   ELSE heap
    /\ log' = <<>>
    /\ UNCHANGED <<peer, calls, useMySQL, ds, db, index, halted>>

DoNewFromJson == NewFromJsonCall(Docs)

DoGet ==
    /\ ~halted
    /\ FreeCells # {}
    /\ \E name \in Names, f \in Faults(GetFaults, "none") :
        \E r \in {Get(name, f)} :
        /\ last' = Called("Get", name, NoJson, NoJson, NoObj, r.err, <<>>)
        /\ cur' = CASE r.how = "fresh" -> Alloc
                    [] r.how = "shared" -> r.obj
                    [] OTHER -> cur
        /\ heap' = CASE r.how = "fresh" ->
                          Collect([heap EXCEPT ![Alloc] = r.node], Alloc, ds)
                     [] r.how = "shared" -> Collect(heap, r.obj, ds)
                     [] OTHER -> heap
        /\ halted' = (r.how = "panic")
    /\ log' = <<>>
    /\ UNCHANGED <<peer, calls, useMySQL, ds, db, index>>

UpdateFromJsonCall(docs) ==
    /\ ~halted
    /\ cur # Nil
    /\ \E json \in docs : \E k \in RangeChoices(json) :
        \E r \in {UpdateFromJson(heap[cur], json, k)} :
        /\ last' = Called("UpdateFromJson", heap[cur].Name, json, r.json,
                          heap[cur], r.err, <<>>)
        /\ heap' = [heap EXCEPT ![cur] = r.node]
    /\ log' = <<>>
    /\ UNCHANGED <<peer, calls, useMySQL, cur, ds, db, index, halted>>

DoUpdateFromJson == UpdateFromJsonCall(Docs)

DoSave ==
    /\ ~halted
    /\ cur # Nil
    /\ \E f \in Faults(SaveFaults, NoFault) :
        \E r \in {Save(heap[cur], cur, f)} :
        /\ last' = Called("Save", heap[cur].Name, NoJson, NoJson,
                          heap[cur], r.err, <<>>)
        /\ ds' = r.ds
        /\ db' = r.db
        /\ index' = r.index
        /\ log' = r.log
        /\ heap' = Collect(heap, cur, r.ds)
    /\ UNCHANGED <<peer, calls, useMySQL, cur, halted>>

DoDelete ==
    /\ ~halted
    /\ cur # Nil
    /\ \E f \in Faults(DeleteFaults, NoFault) :
        \E r \in {Delete(heap[cur], f)} :
        /\ last' = Called("Delete", heap[cur].Name, NoJson, NoJson,
                          heap[cur], r.err, <<>>)
        /\ ds' = r.ds
        /\ db' = r.db
        /\ index' = r.index
        /\ log' = r.log
        /\ heap' = Collect(heap, cur, r.ds)
    /\ UNCHANGED <<peer, calls, useMySQL, cur, halted>>

DoGetList ==
    /\ ~halted
    /\ \E f \in Faults(ListFaults, "none"), order \in Orders(StoredNames) :
        \E r \in {GetList(f, order)} :
        /\ last' = Called("GetList", "", NoJson, NoJson, NoObj, r.err,
                          r.names)
        /\ halted' = (r.err # NoErr)
    /\ log' = <<>>
    /\ UNCHANGED <<peer, calls, useMySQL, heap, cur, ds, db, index>>

Next ==
    \/ DoNew
    \/ DoNewFromJson
    \/ DoGet
    \/ DoUpdateFromJson
    \/ DoSave
    \/ DoDelete
    \/ DoGetList

Spec == Init /\ [][Next]_vars

----------------------------------------------------------------------------
(* Validation on its own: one call of UpdateFromJson or NewFromJson, on    *)
(* every document of a wide family, from a store that holds the receiver   *)
(* or does not.                                                            *)

RECURSIVE SeqsUpTo(_, _)
SeqsUpTo(S, n) ==
    IF n = 0 THEN {<<>>}
    ELSE SeqsUpTo(S, n - 1)
         \cup {Append(q, x) : q \in {p \in SeqsUpTo(S, n - 1) : Len(p) = n - 1},
                              x \in S}

\* the values a document gives a field, besides leaving it out
FieldOptions(k) ==
    CASE k = "json_class" ->
            {JNil, JStr("Chef::Node"), JStr("Chef::Role"), JNum}
      [] k = "chef_type" -> {JNil, JStr("node"), JStr("role")}
      [] k = "chef_environment" ->
            {JNil, JStr("prod"), JStr("dev"), JStr(BadEnv), JNum}
      [] k = "run_list" ->
            {JNil, JStr("recipe[nginx]"), JList(<<BadRunListItem>>)}
            \cup {JList(l) : l \in SeqsUpTo(RunListItems, MaxRunList)}
      [] k = "normal" -> {JNil, JMap(TreeNginx), JNum}
      [] k = "automatic" -> {JMap(TreeDeep)}
      [] k = "default" -> {JMap(EmptyTree), JStr("not a hash")}
      [] k = "override" -> {JMap(TreeNginx), JMap(TreeDeep), JList(<<>>)}

Settings ==
    {<<k, v>> : k \in valid_elements \ {"name"},
                v \in UNION {FieldOptions(f) : f \in valid_elements \ {"name"}}}
    \cap UNION {{<<k, v>> : v \in FieldOptions(k)} :
                    k \in valid_elements \ {"name"}}

\* the name and the keys that are no field of a node
BaseDocs ==
    {[k \in nm[1] \cup bogus |-> IF k = "name" THEN nm[2] ELSE JNum] :
        nm \in {<<{}, JNil>>, <<{"name"}, JStr("a")>>,
                <<{"name"}, JStr("b")>>, <<{"name"}, JNum>>},
        bogus \in {{}, {"bogus_field"}, {"bogus_field", "extra_field"}}}

\* every base document, with up to two fields set
WideDocs ==
    BaseDocs
    \cup {Assign(b, p[1], p[2]) : b \in BaseDocs, p \in Settings}
    \cup {Assign(Assign(b, p[1], p[2]), q[1], q[2]) :
            b \in BaseDocs, p \in Settings, q \in Settings}

\* the receivers: a node fresh from New, and one every field of which has
\* been set
FullNode ==
    [Name |-> "a", ChefEnvironment |-> "prod",
     RunList |-> <<"role[web]", "recipe[nginx]">>,
     JsonClass |-> "Chef::Node", ChefType |-> "node",
     Automatic |-> TreeDeep, Normal |-> TreeNginx,
     Default |-> TreeNginx, Override |-> TreeDeep]

InitV ==
    /\ useMySQL \in BOOLEAN
    /\ cur = 1
    /\ \E n \in {NewNode("a"), FullNode}, stored \in BOOLEAN :
        /\ heap = [o \in Objs |-> IF o = 1 THEN n ELSE NoObj]
        /\ ds = [x \in Names |->
                    IF ~useMySQL /\ stored /\ x = "a" THEN 1 ELSE Nil]
        /\ db = [x \in Names |->
                    IF useMySQL /\ stored /\ x = "a" THEN RowOf(n) ELSE NoRow]
        /\ index = [x \in Names |->
                    IF stored /\ x = "a" THEN Flatten(n) ELSE NoDoc]
    /\ last = Called("init", "", NoJson, NoJson, NoObj, NoErr, <<>>)
    /\ log = <<>>
    /\ halted = FALSE
    /\ peer = NoPeer
    /\ calls = NoCalls

VUpdateFromJson == last.op = "init" /\ UpdateFromJsonCall(WideDocs)

VNewFromJson == last.op = "init" /\ NewFromJsonCall(WideDocs)

NextV ==
    \/ VUpdateFromJson
    \/ VNewFromJson

SpecV == InitV /\ [][NextV]_vars

----------------------------------------------------------------------------
(* The two backends side by side: a process configured with the in-memory  *)
(* data store and one configured with MySQL are given the same calls of    *)
(* New, Get, Save, Delete and GetList, call by call.  The variables hold   *)
(* the state of the process that runs, peer the state of the one that      *)
(* waits; peer.owed tells that the waiting process has made the call of    *)
(* this round and the running one has not answered it yet.                 *)

Process(m, h, c, d, t, i, l, g, x) ==
    [useMySQL |-> m, heap |-> h, cur |-> c, ds |-> d, db |-> t, index |-> i,
     last |-> l, log |-> g, halted |-> x]

Waiting == Called("switch", "", NoJson, NoJson, NoObj, NoErr, <<>>)

InitEq ==
    /\ useMySQL = FALSE
    /\ heap = [o \in Objs |-> NoObj]
    /\ cur = Nil
    /\ ds = [x \in Names |-> Nil]
    /\ db = [x \in Names |-> NoRow]
    /\ index = [x \in Names |-> NoDoc]
    /\ last = Waiting
    /\ log = <<>>
    /\ halted = FALSE
    /\ peer = [owed |-> FALSE,
               proc |-> Process(TRUE, heap, cur, ds, db, index, last, log,
                                halted)]
    /\ calls = NoCalls

\* the running process has not made its call of this round
Ready == last = Waiting

\* the call just made is the call the other process made in this round
Mirrors ==
    peer.owed =>
        /\ last.op = peer.proc.last.op
        /\ last.name = peer.proc.last.name

EqNew == Ready /\ DoNew /\ Mirrors'

EqGet == Ready /\ DoGet /\ Mirrors'

EqSave == Ready /\ DoSave /\ Mirrors'

EqDelete == Ready /\ DoDelete /\ Mirrors'

EqGetList == Ready /\ DoGetList /\ Mirrors'

\* the process that has made its call waits and the other one runs
Switch ==
    /\ ~Ready
    /\ peer' = [owed |-> ~peer.owed,
                proc |-> Process(useMySQL, heap, cur, ds, db, index, last,
                                 log, halted)]
    /\ useMySQL' = peer.proc.useMySQL
    /\ heap' = peer.proc.heap
    /\ cur' = peer.proc.cur
    /\ ds' = peer.proc.ds
    /\ db' = peer.proc.db
    /\ index' = peer.proc.index
    /\ last' = Waiting
    /\ log' = peer.proc.log
    /\ halted' = peer.proc.halted
    /\ UNCHANGED calls

NextEq ==
    \/ EqNew
    \/ EqGet
    \/ EqSave
    \/ EqDelete
    \/ EqGetList
    \/ Switch

SpecEq == InitEq /\ [][NextEq]_vars

----------------------------------------------------------------------------
(* Two goroutines that each call New and then Save on the node they got,   *)
(* one statement at a time.  With MySQL each Save runs in a transaction of *)
(* its own: its probe reads the committed rows, its write is applied at    *)
(* Commit.  db holds, for a name, the committed row a lookup by name       *)
(* finds, calls.rows how many committed rows carry the name.               *)

Callers == {1, 2}

\* the table nodes is keyed by name: an INSERT of a name waits while
\* another transaction's INSERT of that name is not committed or rolled
\* back, and fails when a committed row carries the name
InsertWithoutUniqueKey(name, pending) == "ok"

Insert(name, pending) ==
    IF pending THEN "wait"
    ELSE IF calls.rows[name] > 0 THEN "duplicate"
    ELSE "ok"

InitC ==
    /\ useMySQL \in BOOLEAN
    /\ heap = [o \in Objs |-> NoObj]
    /\ cur = Nil
    /\ ds = [x \in Names |-> Nil]
    /\ db = [x \in Names |-> NoRow]
    /\ index = [x \in Names |-> NoDoc]
    /\ last = Called("init", "", NoJson, NoJson, NoObj, NoErr, <<>>)
    /\ log = <<>>
    /\ halted = FALSE
    /\ peer = NoPeer
    /\ \E names \in [Callers -> Names] :
        calls = [name |-> names,
                 pc |-> [c \in Callers |-> "New"],
                 err |-> [c \in Callers |-> NoErr],
                 write |-> [c \in Callers |-> "none"],
                 rows |-> [x \in Names |-> 0]]

\* caller c goes to pc with error e
Goes(c, pc, e) == [calls EXCEPT !.pc[c] = pc, !.err[c] = e]

\* New(name), lines 45-86; caller c's node is the object c
CallNew(c) ==
    /\ calls.pc[c] = "New"
    /\ \E r \in {New(calls.name[c], "none")} :
        /\ heap' = IF r.err = NoErr THEN [heap EXCEPT ![c] = r.node] ELSE heap
        /\ calls' = Goes(c, IF r.err # NoErr THEN "done"
                            ELSE IF useMySQL THEN "Begin" ELSE "Set", r.err)
    /\ UNCHANGED <<useMySQL, cur, ds, db, index, last, log, halted, peer>>

\* line 318: data_store.Dbh.Begin()
TxBegin(c) ==
    /\ calls.pc[c] = "Begin"
    /\ calls' = Goes(c, "Probe", NoErr)
    /\ UNCHANGED <<useMySQL, heap, cur, ds, db, index, last, log, halted, peer>>

\* lines 326-327 and 336: CheckForOne(tx, "nodes", n.Name)
TxProbe(c) ==
    /\ calls.pc[c] = "Probe"
    /\ calls' = Goes(c, IF db[heap[c].Name] # NoRow THEN "Update" ELSE "Env",
                     NoErr)
    /\ UNCHANGED <<useMySQL, heap, cur, ds, db, index, last, log, halted, peer>>

\* line 330: the UPDATE, which waits for another transaction's write of
\* the row
TxUpdate(c) ==
    /\ calls.pc[c] = "Update"
    /\ ~\E d \in Callers \ {c} :
          calls.write[d] # "none" /\ heap[d].Name = heap[c].Name
    /\ calls' = [Goes(c, "Commit", NoErr) EXCEPT !.write[c] = "update"]
    /\ UNCHANGED <<useMySQL, heap, cur, ds, db, index, last, log, halted, peer>>

\* lines 341-345: CheckForOne(tx, "environments", n.ChefEnvironment)
TxEnvLookup(c) ==
    /\ calls.pc[c] = "Env"
    /\ calls' = IF heap[c].ChefEnvironment \in Environments
                THEN Goes(c, "Insert", NoErr)
                ELSE Goes(c, "Rollback",
                          Err("ErrNoRows", heap[c].ChefEnvironment))
    /\ UNCHANGED <<useMySQL, heap, cur, ds, db, index, last, log, halted, peer>>

\* lines 346-350: the INSERT
TxInsert(c) ==
    /\ calls.pc[c] = "Insert"
    /\ \E r \in {Insert(heap[c].Name,
                        \E d \in Callers \ {c} :
                            /\ calls.write[d] = "insert"
                            /\ heap[d].Name = heap[c].Name)} :
        /\ r # "wait"
        /\ calls' = IF r = "ok"
                    THEN [Goes(c, "Commit", NoErr) EXCEPT !.write[c] = "insert"]
                    ELSE Goes(c, "Rollback", StorageError("insert"))
    /\ UNCHANGED <<useMySQL, heap, cur, ds, db, index, last, log, halted, peer>>

\* lines 332-333, 337-338, 343-344, 348-349: tx.Rollback() and return err
TxRollback(c) ==
    /\ calls.pc[c] = "Rollback"
    /\ calls' = [Goes(c, "done", calls.err[c]) EXCEPT !.write[c] = "none"]
    /\ UNCHANGED <<useMySQL, heap, cur, ds, db, index, last, log, halted, peer>>

\* line 352: tx.Commit() applies the transaction's write
TxCommit(c) ==
    /\ calls.pc[c] = "Commit"
    /\ db' = [db EXCEPT ![heap[c].Name] = RowOf(heap[c])]
    /\ calls' = [Goes(c, "Index", NoErr) EXCEPT
                    !.write[c] = "none",
                    !.rows[heap[c].Name] =
                        IF calls.write[c] = "insert" THEN @ + 1 ELSE @]
    /\ UNCHANGED <<useMySQL, heap, cur, ds, index, last, log, halted, peer>>

\* lines 354-355: ds.Set("node", n.Name, n)
DsSet(c) ==
    /\ calls.pc[c] = "Set"
    /\ ds' = [ds EXCEPT ![heap[c].Name] = c]
    /\ calls' = Goes(c, "Index", NoErr)
    /\ UNCHANGED <<useMySQL, heap, cur, db, index, last, log, halted, peer>>

\* lines 358-359: indexer.IndexObj(n) and return nil
CallIndexObj(c) ==
    /\ calls.pc[c] = "Index"
    /\ index' = IndexObj(index, heap[c])
    /\ calls' = Goes(c, "done", NoErr)
    /\ UNCHANGED <<useMySQL, heap, cur, ds, db, last, log, halted, peer>>

NextC ==
    \E c \in Callers :
        \/ CallNew(c)
        \/ TxBegin(c)
        \/ TxProbe(c)
        \/ TxUpdate(c)
        \/ TxEnvLookup(c)
        \/ TxInsert(c)
        \/ TxRollback(c)
        \/ TxCommit(c)
        \/ DsSet(c)
        \/ CallIndexObj(c)

SpecC == InitC /\ [][NextC]_vars

----------------------------------------------------------------------------
(* Properties. *)

Count(lg, e, a) == Cardinality({i \in DOMAIN lg : lg[i] = Ev(e, a)})
Has(lg, e, a) == Count(lg, e, a) > 0

\* C1: after a Delete of a stored node x that returned nil, in either
\* backend, Get(x) returns the not-found error and no node, without a
\* panic, and the Delete made exactly one remove call to the indexer, for x.
GetAfterDelete == Get(last.name, "none")

C1_DeleteThenGetNotFound ==
    [][(last'.op = "Delete" /\ last'.err = NoErr /\ Stored(last'.name)) =>
        /\ GetAfterDelete'.err.kind = "NotFound"
        /\ GetAfterDelete'.how = "none"
        /\ Count(log', "remove", last'.name) = 1
        /\ \A x \in Names \ {last'.name} : ~Has(log', "remove", x)]_vars

\* C2: with MySQL, Save of a node whose ChefEnvironment has no row in
\* environments does not return nil, whether the node is stored already
\* or not: it returns the environment lookup's error (or the error of a
\* failed database call), and commits nothing.
C2_SaveMissingEnvironmentFails ==
    (useMySQL /\ last.op = "Save"
        /\ last.pre.ChefEnvironment \notin Environments) =>
        /\ last.err.kind \in {"ErrNoRows", "StorageError"}
        /\ ~Has(log, "commit", "ok")
        /\ ~Has(log, "index", last.name)

\* C3 as claimed: New(x) and NewFromJson with name x, x stored, fail with
\* the conflict error whatever else happens, and change nothing.
C3_NewOfStoredNameConflicts ==
    [][(last'.op \in {"New", "NewFromJson"} /\ Stored(last'.name)) =>
        /\ last'.err.kind = "Conflict"
        /\ UNCHANGED <<heap, cur, ds, db, index>>]_vars

\* C3 as amended: New(x) and NewFromJson with name x, x stored, return no
\* node and leave the caller's node, the store and the index unchanged;
\* the error is the conflict error, except that with MySQL a failed
\* existence probe is reported as an internal server error instead.
C3_NewOfStoredNameFails ==
    [][(last'.op \in {"New", "NewFromJson"} /\ Stored(last'.name)) =>
        /\ \/ last'.err.kind = "Conflict"
           \/ useMySQL /\ last'.err.kind = "InternalServerError"
        /\ ~useMySQL => last'.err.kind = "Conflict"
        /\ last'.err.detail = last'.name
        /\ UNCHANGED <<heap, cur, ds, db, index>>]_vars

C3_Witness ==
    /\ last.op = "NewFromJson"
    /\ last.err.kind = "Conflict"
    /\ StoredNames = Names

C5_NameMismatchChangesNothing ==
    [][(/\ last'.op = "UpdateFromJson"
        /\ Lookup(last'.json, "name").t = "str"
        /\ Lookup(last'.json, "name").s # heap[cur].Name) =>
        /\ last'.err.kind = "NameMismatch"
        /\ heap'[cur'] = heap[cur]
        /\ UNCHANGED <<heap, cur, ds, db, index>>]_vars

C5_Witness ==
    /\ last.op = "UpdateFromJson"
    /\ last.err.kind = "NameMismatch"
    /\ Stored(last.name)
    /\ Lookup(last.json, "run_list").t = "list"

ValidationErrors ==
    {"FieldMissing", "NameMismatch", "InvalidKey", "InvalidRunList",
     "InvalidAttributes", "FieldInvalid"}

\* C6: when UpdateFromJson or NewFromJson returns a validation error, no
\* field of the node has been assigned and the store and the index are as
\* before the call.
C6_ValidationErrorChangesNothing ==
    [][(/\ last'.op \in {"UpdateFromJson", "NewFromJson"}
        /\ last'.err.kind \in ValidationErrors) =>
        /\ log' = <<>>
        /\ UNCHANGED <<heap, cur, ds, db, index>>]_vars

C6_Witness ==
    /\ last.op = "UpdateFromJson"
    /\ last.err = Err("FieldInvalid", "chef_type")
    /\ Lookup(last.json, "chef_environment") = JStr("dev")
    /\ last.pre.ChefEnvironment = "prod"
    /\ Stored(last.name)

\* C7: in either backend, a Get right after a Save that returned nil
\* returns a node whose environment, run list (element by element, in
\* order) and four attribute trees equal those of the node saved.
GetAfterSave == Get(last.name, "none")

C7_SaveThenGetRoundTrip ==
    [][(last'.op = "Save" /\ last'.err = NoErr) =>
        /\ GetAfterSave'.err = NoErr
        /\ GetAfterSave'.node.ChefEnvironment = last'.pre.ChefEnvironment
        /\ GetAfterSave'.node.RunList = last'.pre.RunList
        /\ GetAfterSave'.node.Automatic = last'.pre.Automatic
        /\ GetAfterSave'.node.Normal = last'.pre.Normal
        /\ GetAfterSave'.node.Default = last'.pre.Default
        /\ GetAfterSave'.node.Override = last'.pre.Override]_vars

\* the value UpdateFromJson gives a field of the node from the document
FromList(v) == IF v.t = "list" THEN v.l ELSE <<>>
FromMap(v) == IF v.t = "map" THEN v.m ELSE EmptyTree

\* C8: a successful UpdateFromJson keeps the node's ChefEnvironment,
\* JsonClass and ChefType where the document leaves the field out or
\* gives null, and sets every other field from the document.
C8_AbsentFieldsInherit ==
    (last.op = "UpdateFromJson" /\ last.err = NoErr) =>
        LET n == heap[cur]
            env == Lookup(last.json, "chef_environment")
        IN
        /\ env.t = "nil" => n.ChefEnvironment = last.pre.ChefEnvironment
        /\ env.t = "str" => n.ChefEnvironment = env.s
        /\ Lookup(last.json, "json_class").t = "nil" =>
              n.JsonClass = last.pre.JsonClass
        /\ Lookup(last.json, "chef_type").t = "nil" =>
              n.ChefType = last.pre.ChefType
        /\ n.Name = last.pre.Name
        /\ n.RunList = FromList(Lookup(last.json, "run_list"))
        /\ n.Normal = FromMap(Lookup(last.json, "normal"))
        /\ n.Automatic = FromMap(Lookup(last.json, "automatic"))
        /\ n.Default = FromMap(Lookup(last.json, "default"))
        /\ n.Override = FromMap(Lookup(last.json, "override"))

C8_Witness ==
    /\ last.op = "UpdateFromJson"
    /\ last.err = NoErr
    /\ last.pre = FullNode
    /\ DOMAIN last.json = {"name", "run_list", "override"}
    /\ Len(last.json["run_list"].l) = MaxRunList
    /\ heap[cur].ChefEnvironment = "prod"
    /\ heap[cur].Normal = EmptyTree

\* C9: by one caller, a Save that returned nil adds its node's name to the
\* names stored, a Delete that returned nil removes it, neither changes
\* another name, and a GetList that returns returns the names stored, each
\* once.
C9_GetListIsSavedMinusDeleted ==
    [][/\ (last'.op = "Save" /\ last'.err = NoErr) =>
              StoredNames' = StoredNames \cup {last'.name}
       /\ (last'.op = "Delete" /\ last'.err = NoErr) =>
              StoredNames' = StoredNames \ {last'.name}
       /\ (last'.op = "GetList" /\ last'.err = NoErr) =>
              /\ {last'.names[i] : i \in DOMAIN last'.names} = StoredNames
              /\ Len(last'.names) = Cardinality(StoredNames)]_vars

\* C10: a Save that returns nil has committed its write and then called
\* the indexer once, for its node; a Save whose write or commit failed
\* calls no indexer and does not return nil.
C10_IndexOnlyAfterCommit ==
    (useMySQL /\ last.op = "Save") =>
        /\ last.err = NoErr =>
              /\ Len(log) >= 2
              /\ log[Len(log) - 1] = Ev("commit", "ok")
              /\ log[Len(log)] = Ev("index", last.name)
              /\ Count(log, "index", last.name) = 1
        /\ (\E i \in DOMAIN log : log[i][2] = "failed") =>
              /\ last.err # NoErr
              /\ ~Has(log, "index", last.name)

\* the places in lg of the events of kind e
Events(lg, e) == {i \in DOMAIN lg : lg[i][1] = e}

\* C12: with MySQL, when a statement of Save or Delete fails and the
\* rollback that follows fails as well, the error returned carries both
\* the statement's error and the rollback's.
C12_RollbackErrorCombined ==
    (useMySQL /\ last.op \in {"Save", "Delete"}
        /\ Has(log, "rollback", "failed")) =>
        last.err.kind = "StorageError+RollbackError"

\* C13: with MySQL, a Save whose probe succeeds executes one UPDATE and no
\* INSERT when the name is stored, and no UPDATE and one INSERT (none when
\* the environment lookup fails) when it is not; when the probe, the
\* environment lookup or the write returns an error, Save rolls back once,
\* as its last call on the transaction, never commits, leaves the table and
\* the index as they were and returns that call's error as it is.
C13_ProbeSelectsOneWrite ==
    [][(useMySQL /\ last'.op = "Save" /\ Has(log', "begin", "ok")) =>
        LET wasStored == db[last'.name] # NoRow
            updates == Cardinality(Events(log', "update"))
            inserts == Cardinality(Events(log', "insert"))
            probeFailed == last'.err = StorageError("probe")
            envFailed ==
                \/ last'.err = StorageError("environments")
                \/ last'.err = Err("ErrNoRows", last'.pre.ChefEnvironment)
            failedCall == log'[Len(log') - 1]
        IN
        /\ probeFailed => (updates = 0 /\ inserts = 0)
        /\ (~probeFailed /\ wasStored) => (updates = 1 /\ inserts = 0)
        /\ (~probeFailed /\ ~wasStored) =>
              (updates = 0 /\ inserts = IF envFailed THEN 0 ELSE 1)
        /\ last'.err # NoErr =>
              /\ Cardinality(Events(log', "rollback")) = 1
              /\ log'[Len(log')][1] = "rollback"
              /\ Events(log', "commit") = {}
              /\ db' = db
              /\ index' = index
              /\ failedCall = Ev("probe", "nodes") => probeFailed
              /\ failedCall = Ev("probe", "environments") => envFailed
              /\ failedCall = Ev("update", "failed") =>
                    last'.err = StorageError("update")
              /\ failedCall = Ev("insert", "failed") =>
                    last'.err = StorageError("insert")
              /\ failedCall \in {Ev("probe", "nodes"),
                                 Ev("probe", "environments"),
                                 Ev("update", "failed"),
                                 Ev("insert", "failed")}]_vars

C13_Witness ==
    /\ useMySQL
    /\ last.op = "Save"
    /\ last.err = StorageError("update")
    /\ Has(log, "rollback", "failed")
    /\ Stored(last.name)
    /\ last.pre.RunList # <<>>

\* C19: with MySQL, a Save or Delete whose Begin succeeded ends its
\* transaction by exactly one call, a Commit when it returns nil and a
\* Rollback when it returns an error, after its last statement; one whose
\* Begin failed, or that did not get to Begin, makes no such call.
C19_TransactionEndedOnce ==
    (useMySQL /\ last.op \in {"Save", "Delete"}) =>
        LET ends == Events(log, "commit") \cup Events(log, "rollback")
            statements == Events(log, "probe") \cup Events(log, "update")
                            \cup Events(log, "insert") \cup Events(log, "delete")
        IN
        /\ Cardinality(Events(log, "begin")) <= 1
        /\ Has(log, "begin", "ok") =>
              /\ Cardinality(ends) = 1
              /\ \A e \in ends : \A s \in statements : s < e
              /\ \A e \in ends : \A b \in Events(log, "begin") : b < e
              /\ last.err = NoErr => Events(log, "rollback") = {}
              /\ last.err # NoErr => Events(log, "commit") = {}
        /\ ~Has(log, "begin", "ok") => (ends = {} /\ statements = {})

C19_Witness ==
    /\ useMySQL
    /\ last.op = "Save"
    /\ Has(log, "insert", "failed")
    /\ Has(log, "rollback", "failed")
    /\ last.err = StorageError("insert")

\* a value given for a tag field that is not the constant c: the key is
\* there, its value is not null and not the string c
WrongTag(json, k, c) == Lookup(json, k) \notin {JNil, JStr(c)}

\* every check UpdateFromJson makes before json_class passes on json
PassesUpToEnvironment(json, n) ==
    /\ Lookup(json, "name") = JStr(n.Name)
    /\ InvalidKeys(json) = {}
    /\ ValidateRunList(Lookup(json, "run_list")).err = NoErr
    /\ \A i \in DOMAIN attrs :
          ValidateAttributes(attrs[i], Lookup(json, attrs[i])).err = NoErr
    /\ \/ Lookup(json, "chef_environment").t = "nil"
       \/ /\ Lookup(json, "chef_environment").t = "str"
          /\ ValidateEnvName(Lookup(json, "chef_environment").s)

HasTagConstants(n) == n.ChefType = "node" /\ n.JsonClass = "Chef::Node"

\* C15 as claimed: every node has ChefType "node" and JsonClass
\* "Chef::Node", and an UpdateFromJson whose document gives chef_type or
\* json_class another value fails with the invalid-field-value error and
\* leaves the node unchanged.
C15_WrongTagIsInvalidFieldValue ==
    [][last'.op = "UpdateFromJson" =>
        /\ \A o \in Objs : heap'[o] # NoObj => HasTagConstants(heap'[o])
        /\ (\/ WrongTag(last'.json, "chef_type", "node")
            \/ WrongTag(last'.json, "json_class", "Chef::Node")) =>
              /\ last'.err.kind = "FieldInvalid"
              /\ last'.err.detail \in {"chef_type", "json_class"}
              /\ heap' = heap]_vars

\* C15 as amended: every node has ChefType "node" and JsonClass
\* "Chef::Node", and an UpdateFromJson whose document gives chef_type or
\* json_class another value fails and leaves the node unchanged; the error
\* is the invalid-field-value error of json_class when every earlier check
\* passes and the value is a string, that of chef_type when json_class
\* passes as well, the field-missing error when the value is no string,
\* and the error of the first failing check otherwise.
C15_WrongTagRejected ==
    [][last'.op = "UpdateFromJson" =>
        LET json == last'.json
            jc == Lookup(json, "json_class")
            ct == Lookup(json, "chef_type")
        IN
        /\ \A o \in Objs : heap'[o] # NoObj => HasTagConstants(heap'[o])
        /\ (\/ WrongTag(json, "chef_type", "node")
            \/ WrongTag(json, "json_class", "Chef::Node")) =>
              /\ last'.err # NoErr
              /\ last'.err.kind \in ValidationErrors
              /\ heap' = heap
        /\ (PassesUpToEnvironment(json, heap[cur])
                /\ WrongTag(json, "json_class", "Chef::Node")) =>
              last'.err = IF jc.t = "str"
                          THEN Err("FieldInvalid", "json_class")
                          ELSE Err("FieldMissing", "name")
        /\ (PassesUpToEnvironment(json, heap[cur])
                /\ ~WrongTag(json, "json_class", "Chef::Node")
                /\ WrongTag(json, "chef_type", "node")) =>
              last'.err = IF ct.t = "str"
                          THEN Err("FieldInvalid", "chef_type")
                          ELSE Err("FieldMissing", "name")]_vars

C15_Witness ==
    /\ last.op = "UpdateFromJson"
    /\ last.err = Err("FieldInvalid", "chef_type")
    /\ Lookup(last.json, "chef_type") = JStr("role")
    /\ Lookup(last.json, "json_class") = JStr("Chef::Node")
    /\ last.pre = FullNode
    /\ heap[cur] = FullNode

\* C16: UpdateFromJson leaves the caller's map with the keys and values it
\* had before the call, whether it returns nil or an error, and writes
\* neither the store nor the index.
C16_InputMapUnchanged ==
    [][last'.op = "UpdateFromJson" =>
        /\ last'.jsonOut = last'.json
        /\ UNCHANGED <<ds, db, index>>]_vars

\* C17: for a document with two or more keys that are no field of a node,
\* every run of UpdateFromJson on the same node and document returns the
\* error this run returned, whatever order the keys are met in.
C17_UnknownKeyRejectionDeterministic ==
    (last.op = "UpdateFromJson"
        /\ Cardinality(InvalidKeys(last.json)) >= 2) =>
        \A k \in RangeChoices(last.json) :
            UpdateFromJson(last.pre, last.json, k).err = last.err

\* the node the store holds under x
StoredNode(x) ==
    IF useMySQL THEN fillNodeFromSQL(x, db[x]) ELSE heap[ds[x]]

\* C18: between calls, the index holds a document for x exactly when the
\* store holds a node x, and the document is the one computed from the
\* fields the store holds for x.
C18_IndexMatchesStore ==
    \A x \in Names :
        /\ index[x] # NoDoc <=> Stored(x)
        /\ Stored(x) => index[x] = Flatten(StoredNode(x))

\* the node a call of New or Get returned to the caller of process p
Returned(p) ==
    IF p.last.op \in {"New", "Get"} /\ p.last.err = NoErr
    THEN p.heap[p.cur] ELSE NoObj

Running == Process(useMySQL, heap, cur, ds, db, index, last, log, halted)

\* C11: given the same calls of New, Get, Save, Delete and GetList by one
\* caller, with every environment referred to present, the MySQL backend
\* and the in-memory backend return the same error, the same node (field
\* by field) and the same names at every call, and neither panics where
\* the other returns; that includes Get of a name that is not stored.
C11_BackendsAgree ==
    (peer # NoPeer /\ peer.owed /\ ~Ready) =>
        /\ last.op = peer.proc.last.op
        /\ last.err = peer.proc.last.err
        /\ halted = peer.proc.halted
        /\ Returned(Running) = Returned(peer.proc)
        /\ {last.names[i] : i \in DOMAIN last.names}
              = {peer.proc.last.names[i] : i \in DOMAIN peer.proc.last.names}

\* the live records named x: committed rows of the table, or nodes of
\* that name the data store holds
RecordsNamed(x) ==
    IF useMySQL THEN calls.rows[x]
    ELSE Cardinality({k \in Names : ds[k] # Nil /\ heap[ds[k]].Name = x})

====
